---- MODULE Spec2Model ----
(***************************************************************************)
(* Model of Sender::connect (src/src/sender.rs): the initiator side of the *)
(* control handshake that brings up RDMA queue pairs, followed by the      *)
(* per-queue-pair receive/completion barrier.                              *)
(*                                                                         *)
(* Integers of the wire format are kept at their width as little-endian    *)
(* byte tuples (u32 = 4 bytes, u64 = 8 bytes), so that the maximum value   *)
(* of each width is representable and truncation is visible.               *)
(***************************************************************************)
EXTENDS Integers, Sequences, FiniteSets, TLC

\* Largest num_qps explored.
MaxQps == 2

\* Capacity of the receive buffer: vec![0; 1024].
BufCap == 1024

Min(a, b) == IF a < b THEN a ELSE b

(***************************************************************************)
(* Fixed-width little-endian integers.                                     *)
(***************************************************************************)
RECURSIVE LE(_, _)
LE(n, w) == IF w = 0 THEN <<>> ELSE <<n % 256>> \o LE(n \div 256, w - 1)

Zero32 == LE(0, 4)
Zero64 == LE(0, 8)
Max32 == [k \in 1..4 |-> 255]
Max64 == [k \in 1..8 |-> 255]

Families == {"V4", "V6"}

FamilyCode(f) == IF f = "V4" THEN LE(0, 4) ELSE LE(1, 4)

(***************************************************************************)
(* ControlMessage (SocketCommCommand) values.                              *)
(***************************************************************************)
Mr(a, r, l) == [tag |-> "Mr", address |-> a, rkey |-> r, length |-> l]
InitQp(i, f) == [tag |-> "InitQp", index |-> i, family |-> f]
ConnectQp(s, i, q, p) ==
    [tag |-> "ConnectQp", subnet_id |-> s, interface_id |-> i, qpn |-> q, psn |-> p]
Stop == [tag |-> "Stop"]
DecodeError == [tag |-> "DecodeError"]
NoMsg == [tag |-> "None"]

\* bincode::serialize(&SocketComm{command}): u32 variant index, then the
\* variant's fields in declared order, fixed width, little endian.
Encode(m) ==
    CASE m.tag = "Mr" -> LE(0, 4) \o m.address \o m.rkey \o m.length
      [] m.tag = "InitQp" -> LE(1, 4) \o m.index \o FamilyCode(m.family)
      [] m.tag = "ConnectQp" ->
            LE(2, 4) \o m.subnet_id \o m.interface_id \o m.qpn \o m.psn
      [] m.tag = "Stop" -> LE(3, 4)

\* bincode::deserialize(&buffer): trailing bytes of the buffer are ignored.
Decode(buf) ==
    LET disc == SubSeq(buf, 1, 4)
    IN  CASE disc = LE(0, 4) ->
                Mr(SubSeq(buf, 5, 12), SubSeq(buf, 13, 16), SubSeq(buf, 17, 24))
          [] disc = LE(1, 4) ->
                IF SubSeq(buf, 9, 12) = LE(0, 4)
                THEN InitQp(SubSeq(buf, 5, 8), "V4")
                ELSE IF SubSeq(buf, 9, 12) = LE(1, 4)
                THEN InitQp(SubSeq(buf, 5, 8), "V6")
                ELSE DecodeError
          [] disc = LE(2, 4) ->
                ConnectQp(SubSeq(buf, 5, 12), SubSeq(buf, 13, 20),
                          SubSeq(buf, 21, 24), SubSeq(buf, 25, 28))
          [] disc = LE(3, 4) -> Stop
          [] OTHER -> DecodeError

\* ReadBuf with the copy one byte short.
ReadBuf_DropLast(data, n) == [k \in 1..BufCap |-> IF k < n THEN data[k] ELSE 0]

\* let mut buffer = vec![0; 1024]; stream.read(&mut buffer): the first n
\* bytes of the buffer are overwritten, the rest stay zero.
ReadBuf(data, n) == [k \in 1..BufCap |-> IF k <= n THEN data[k] ELSE 0]

(***************************************************************************)
(* Values supplied by the external collaborators.                          *)
(***************************************************************************)
\* sender_metadata_mr.addr() / rkey() of the locally registered region.
LocalMrAddr == LE(4096, 8)
LocalMrRkey == LE(77, 4)

\* gid_table.get_entry_by_index(i, family): Some(entry) iff i is resolvable.
GidEntry(i) ==
    [gidx |-> i, port |-> 1, subnet_id |-> LE(65152, 8), interface_id |-> LE(i + 1, 8)]

\* qp.qp_num() and qp.psn() of the local queue pair created for index i.
QpNum(i) == LE(i + 17, 4)
Psn(i) == LE(i + 5, 4)

\* Memory regions the peer may have registered.
PeerMetas ==
    { [address |-> Max64, rkey |-> Max32],
      [address |-> LE(8192, 8), rkey |-> LE(9, 4)] }

\* The responder's half of the identity of its queue pair for index i.
PeerQp(i) == ConnectQp(Max64, LE(i + 129, 8), LE(i + 33, 4), Max32)

VARIABLES
    num_qps,        \* Sender.num_qps
    family,         \* Sender.family
    resolvable,     \* indices for which the GID table has an entry of family
    peerMeta,       \* the peer's memory region metadata
    pc,             \* position of connect()
    qp_idx,         \* loop variable of the per-index loop
    qp,             \* the local queue pair of the current index
    qp_list,        \* Sender.qp_list
    receiver_metadata_address,
    receiver_metadata_rkey,
    it,             \* position of the barrier loop in qp_list (1-based)
    log,            \* every operation connect() has performed, in order
    r2i,            \* bytes written by the responder, not yet read
    rRead,          \* number of initiator messages the responder has read
    peerOpen,       \* the responder has not closed the control connection
    rCur,           \* index of the responder's queue pair under negotiation
    rConn,          \* indices of the responder's connected queue pairs
    rStopped,       \* the responder has read Stop
    peerSent,       \* indices on whose queue pair the responder has sent
    honest          \* the responder has honored the contract, nothing failed

vars == <<num_qps, family, resolvable, peerMeta, pc, qp_idx, qp, qp_list,
          receiver_metadata_address, receiver_metadata_rkey, it, log,
          r2i, rRead, peerOpen, rCur, rConn, rStopped, peerSent, honest>>

config == <<num_qps, family, resolvable, peerMeta>>
session == <<qp_list, receiver_metadata_address, receiver_metadata_rkey>>
responder == <<r2i, rRead, peerOpen, rCur, rConn, rStopped, peerSent>>

NoQp == [idx |-> -1, state |-> "none"]

\* One entry of the operation log.
Ev(op, at, msg, ok) == [op |-> op, at |-> at, msg |-> msg, ok |-> ok, n |-> 0, exact |-> TRUE]
ReadEv(at, msg, n, exact) ==
    [op |-> "read", at |-> at, msg |-> msg, ok |-> TRUE, n |-> n, exact |-> exact]

Aborted == {"panicked", "failed"}
Terminal == Aborted \cup {"ready"}

IsWrite(e) == e.op = "write" /\ e.ok
\* The control messages written so far, in order.
Sent == LET w == SelectSeq(log, IsWrite) IN [k \in 1..Len(w) |-> w[k].msg]

\* The queue pairs that were on the list when the current call of connect()
\* began: those connected before the latest opening of a control connection.
\* Their peers belong to an earlier connection of the responder.
CallBase ==
    LET opens == {k \in DOMAIN log : log[k].op = "open"}
    IN  Cardinality({k \in DOMAIN log :
            /\ log[k].op = "connect" /\ log[k].ok
            /\ \E o \in opens : k < o})

\* Sender::new
Init ==
    /\ num_qps \in 0..MaxQps
    /\ family \in Families
    /\ resolvable \in SUBSET (0..(num_qps - 1))
    /\ peerMeta \in PeerMetas
    /\ pc = "start"
    /\ qp_idx = 0
    /\ qp = NoQp
    /\ qp_list = <<>>
    /\ receiver_metadata_address = Zero64
    /\ receiver_metadata_rkey = Zero32
    /\ it = 1
    /\ log = <<>>
    /\ r2i = <<>>
    /\ rRead = 0
    /\ peerOpen = TRUE
    /\ rCur = -1
    /\ rConn = {}
    /\ rStopped = FALSE
    /\ peerSent = {}
    /\ honest = TRUE

\* Advance without the GID lookup: every index below num_qps is negotiated.
Advance_NoSkip(i) == IF i >= num_qps THEN num_qps ELSE i

\* for qp_idx in 0..num_qps { if let Some(..) = get_entry_by_index(qp_idx) {..} }:
\* the first index at or after i that has a GID entry, num_qps if none.
RECURSIVE Advance(_)
Advance(i) ==
    IF i >= num_qps THEN num_qps
    ELSE IF i \in resolvable THEN i
    ELSE Advance(i + 1)

\* LoopPc with the range of the loop one index short.
LoopPc_OffByOne(j) == IF j < num_qps - 1 THEN "initQp" ELSE "writeStop"

\* Position of connect() once the loop variable is j.
LoopPc(j) == IF j < num_qps THEN "initQp" ELSE "writeStop"

\* TcpStream::connect(send_address).unwrap()
Open ==
    /\ pc = "start"
    /\ log' = Append(log, Ev("open", -1, NoMsg, TRUE))
    /\ pc' = "writeMr"
    /\ UNCHANGED <<config, session, responder, qp_idx, qp, it, honest>>

\* stream.write(serialize(Mr(meta_data)))
WriteMr ==
    /\ pc = "writeMr"
    /\ log' = Append(log, Ev("write", -1, Mr(LocalMrAddr, LocalMrRkey, Zero64), TRUE))
    /\ pc' = "readMr"
    /\ UNCHANGED <<config, session, responder, qp_idx, qp, it, honest>>

\* Readable for a read that does not block: it returns with what is there.
Readable_NonBlocking == TRUE

\* A read returns when bytes are available or the peer has closed.
Readable == r2i # <<>> \/ ~peerOpen

\* StoreMetadata with the rkey left out.
StoreMetadata_AddressOnly(m) ==
    IF m.tag = "Mr"
    THEN /\ receiver_metadata_address' = m.address
         /\ UNCHANGED receiver_metadata_rkey
    ELSE UNCHANGED <<receiver_metadata_address, receiver_metadata_rkey>>

\* if let Mr(metadata) = socket_comm.command { store address and rkey }
StoreMetadata(m) ==
    IF m.tag = "Mr"
    THEN /\ receiver_metadata_address' = m.address
         /\ receiver_metadata_rkey' = m.rkey
    ELSE UNCHANGED <<receiver_metadata_address, receiver_metadata_rkey>>

\* stream.read(&mut buffer); deserialize(&buffer); store; enter the loop
ReadMr ==
    /\ pc = "readMr"
    /\ Readable
    /\ LET n == Min(Len(r2i), BufCap)
           m == Decode(ReadBuf(r2i, n))
       IN  /\ r2i' = SubSeq(r2i, n + 1, Len(r2i))
           /\ log' = Append(log, ReadEv(-1, m, n,
                        m # DecodeError /\ SubSeq(r2i, 1, n) = Encode(m)))
           /\ IF m = DecodeError
              THEN /\ pc' = "panicked"
                   /\ UNCHANGED <<qp_idx, receiver_metadata_address, receiver_metadata_rkey>>
              ELSE /\ StoreMetadata(m)
                   /\ qp_idx' = Advance(0)
                   /\ pc' = LoopPc(Advance(0))
    /\ UNCHANGED <<config, qp_list, qp, it, rRead, peerOpen, rCur, rConn, rStopped,
                   peerSent, honest>>

\* IbvQp::new(..); qp.init(gid_entry.port)?
InitQpStep ==
    /\ pc = "initQp"
    /\ qp' = [idx |-> qp_idx, state |-> "init"]
    /\ log' = Append(log, Ev("init", qp_idx, NoMsg, TRUE))
    /\ pc' = "writeInit"
    /\ UNCHANGED <<config, session, responder, qp_idx, it, honest>>

\* WriteInitQp that does not wait for the answer: the queue pair is
\* connected and the next message written with the reply still unread.
WriteInitQp_NoReply ==
    /\ pc = "writeInit"
    /\ log' = Append(log, Ev("write", qp_idx, InitQp(LE(qp_idx, 4), family), TRUE))
    /\ pc' = "qpConnect"
    /\ UNCHANGED <<config, session, responder, qp_idx, qp, it, honest>>

\* stream.write(serialize(InitQp(qp_idx, family)))
WriteInitQp ==
    /\ pc = "writeInit"
    /\ log' = Append(log, Ev("write", qp_idx, InitQp(LE(qp_idx, 4), family), TRUE))
    /\ pc' = "readConn"
    /\ UNCHANGED <<config, session, responder, qp_idx, qp, it, honest>>

\* stream.read(&mut buffer); deserialize(&buffer); if let ConnectQp(..) = .. {..}
ReadConnectQp ==
    /\ pc = "readConn"
    /\ Readable
    /\ LET n == Min(Len(r2i), BufCap)
           m == Decode(ReadBuf(r2i, n))
       IN  /\ r2i' = SubSeq(r2i, n + 1, Len(r2i))
           /\ log' = Append(log, ReadEv(qp_idx, m, n,
                        m # DecodeError /\ SubSeq(r2i, 1, n) = Encode(m)))
           /\ IF m = DecodeError
              THEN pc' = "panicked" /\ UNCHANGED <<qp_idx, qp>>
              ELSE IF m.tag = "ConnectQp"
              THEN pc' = "qpConnect" /\ UNCHANGED <<qp_idx, qp>>
              ELSE /\ qp' = NoQp
                   /\ qp_idx' = Advance(qp_idx + 1)
                   /\ pc' = LoopPc(Advance(qp_idx + 1))
    /\ UNCHANGED <<config, session, it, rRead, peerOpen, rCur, rConn, rStopped,
                   peerSent, honest>>

\* qp.connect(&remote_qp_metadata)?; ...; self.qp_list.push(qp)
QpConnect ==
    /\ pc = "qpConnect"
    /\ log' = Append(log, Ev("connect", qp_idx, log[Len(log)].msg, TRUE))
    /\ qp_list' = Append(qp_list, [idx |-> qp_idx, state |-> "connected"])
    /\ qp' = [idx |-> qp_idx, state |-> "connected"]
    /\ pc' = "writeConn"
    /\ UNCHANGED <<config, receiver_metadata_address, receiver_metadata_rkey,
                   responder, qp_idx, it, honest>>

\* WriteConnectQp that starts the barrier on the queue pair right away,
\* before the remaining indices and Stop.
WriteConnectQp_ThenBarrier ==
    /\ pc = "writeConn"
    /\ log' = Append(log, Ev("write", qp_idx,
                 ConnectQp(GidEntry(qp_idx).subnet_id, GidEntry(qp_idx).interface_id,
                           QpNum(qp_idx), Psn(qp_idx)), TRUE))
    /\ qp' = NoQp
    /\ qp_idx' = Advance(qp_idx + 1)
    /\ it' = 1
    /\ pc' = "postRecv"
    /\ UNCHANGED <<config, session, responder, honest>>

\* WriteConnectQp that always takes the GID entry of index 0.
WriteConnectQp_FirstGid ==
    /\ pc = "writeConn"
    /\ log' = Append(log, Ev("write", qp_idx,
                 ConnectQp(GidEntry(0).subnet_id, GidEntry(0).interface_id,
                           QpNum(qp_idx), Psn(qp_idx)), TRUE))
    /\ qp' = NoQp
    /\ qp_idx' = Advance(qp_idx + 1)
    /\ pc' = LoopPc(Advance(qp_idx + 1))
    /\ UNCHANGED <<config, session, responder, it, honest>>

\* WriteConnectQp with the write left out: the loop moves on without sending
\* the initiator's half.
WriteConnectQp_Skipped ==
    /\ pc = "writeConn"
    /\ qp' = NoQp
    /\ qp_idx' = Advance(qp_idx + 1)
    /\ pc' = LoopPc(Advance(qp_idx + 1))
    /\ UNCHANGED <<config, session, responder, it, honest, log>>

\* stream.write(serialize(ConnectQp(qp_metadata))); end of the loop body
WriteConnectQp ==
    /\ pc = "writeConn"
    /\ log' = Append(log, Ev("write", qp_idx,
                 ConnectQp(GidEntry(qp_idx).subnet_id, GidEntry(qp_idx).interface_id,
                           QpNum(qp_idx), Psn(qp_idx)), TRUE))
    /\ qp' = NoQp
    /\ qp_idx' = Advance(qp_idx + 1)
    /\ pc' = LoopPc(Advance(qp_idx + 1))
    /\ UNCHANGED <<config, session, responder, it, honest>>

\* WriteStop returning right after Stop, without the barrier.
WriteStop_Return ==
    /\ pc = "writeStop"
    /\ log' = Append(log, Ev("write", -1, Stop, TRUE))
    /\ it' = 1
    /\ pc' = "ready"
    /\ UNCHANGED <<config, session, responder, qp_idx, qp, honest>>

\* stream.write(serialize(Stop)); an empty qp_list makes connect() return Ok
WriteStop ==
    /\ pc = "writeStop"
    /\ log' = Append(log, Ev("write", -1, Stop, TRUE))
    /\ it' = 1
    /\ pc' = IF qp_list = <<>> THEN "ready" ELSE "postRecv"
    /\ UNCHANGED <<config, session, responder, qp_idx, qp, honest>>

\* qp.ibv_post_recv(notify_wr)?
PostRecv ==
    /\ pc = "postRecv"
    /\ log' = Append(log, Ev("post", it, NoMsg, TRUE))
    /\ pc' = "wait"
    /\ UNCHANGED <<config, session, responder, qp_idx, qp, it, honest>>

\* WaitForEvent satisfied by a completion of any queue pair of the list.
WaitForEvent_AnyQp ==
    /\ pc = "wait"
    /\ \E j \in DOMAIN qp_list : qp_list[j].idx \in peerSent
    /\ log' = Append(log, Ev("wait", it, NoMsg, TRUE))
    /\ it' = it + 1
    /\ pc' = IF it = Len(qp_list) THEN "ready" ELSE "postRecv"
    /\ UNCHANGED <<config, session, responder, qp_idx, qp, honest>>

\* qp.wait_for_event()?: returns once the peer's send on this queue pair has
\* consumed the posted receive; then the next queue pair, or Ok(())
WaitForEvent ==
    /\ pc = "wait"
    /\ it > CallBase
    /\ qp_list[it].idx \in peerSent
    /\ log' = Append(log, Ev("wait", it, NoMsg, TRUE))
    /\ it' = it + 1
    /\ pc' = IF it = Len(qp_list) THEN "ready" ELSE "postRecv"
    /\ UNCHANGED <<config, session, responder, qp_idx, qp, honest>>

\* The operation connect() is about to perform at each position, and how
\* its failure surfaces: unwrap() panics, ? returns the error.
OpAt(p) ==
    CASE p = "start" -> "open"
      [] p \in {"writeMr", "writeInit", "writeConn", "writeStop"} -> "write"
      [] p \in {"readMr", "readConn"} -> "read"
      [] p = "initQp" -> "init"
      [] p = "qpConnect" -> "connect"
      [] p = "postRecv" -> "post"
      [] p = "wait" -> "wait"

\* The index (per-index loop) or list position (barrier) the operation at
\* position p is about, -1 outside the loops.
AtOf(p) ==
    IF p \in {"initQp", "writeInit", "readConn", "qpConnect", "writeConn"} THEN qp_idx
    ELSE IF p \in {"postRecv", "wait"} THEN it
    ELSE -1

\* AbortPc with the result of the first write ignored.
AbortPc_IgnoreWrite(p) ==
    IF p = "writeMr" THEN "readMr"
    ELSE IF OpAt(p) \in {"open", "write", "read"} THEN "panicked" ELSE "failed"

AbortPc(p) == IF OpAt(p) \in {"open", "write", "read"} THEN "panicked" ELSE "failed"

\* Fail that tears down what connect() had built: the list is emptied and
\* the remote metadata reset.
Fail_Rollback ==
    /\ pc \notin Terminal
    /\ log' = Append(log, Ev(OpAt(pc), AtOf(pc), NoMsg, FALSE))
    /\ pc' = AbortPc(pc)
    /\ honest' = FALSE
    /\ qp_list' = <<>>
    /\ receiver_metadata_address' = Zero64
    /\ receiver_metadata_rkey' = Zero32
    /\ UNCHANGED <<config, responder, qp_idx, qp, it>>

\* The operation at the current position fails.
Fail ==
    /\ pc \notin Terminal
    /\ log' = Append(log, Ev(OpAt(pc), AtOf(pc), NoMsg, FALSE))
    /\ pc' = AbortPc(pc)
    /\ honest' = FALSE
    /\ UNCHANGED <<config, session, responder, qp_idx, qp, it>>

(***************************************************************************)
(* The responding peer, as far as connect() depends on it.                 *)
(***************************************************************************)
\* The index an InitQueuePair message carries.
IndexOf(b) == CHOOSE i \in 0..MaxQps : LE(i, 4) = b

\* The bytes a contract-honoring responder answers a message with.
Reply(m) ==
    CASE m.tag = "Mr" -> Encode(Mr(peerMeta.address, peerMeta.rkey, LE(24, 8)))
      [] m.tag = "InitQp" -> Encode(PeerQp(IndexOf(m.index)))
      [] OTHER -> <<>>

\* A valid ConnectQueuePair followed by padding: one byte more than the
\* receive buffer holds.
Oversized == Encode(PeerQp(0)) \o [k \in 1..(BufCap - 27) |-> 7]

\* Proper prefixes of a message: its first byte, all but its last byte.
Truncations(b) == { SubSeq(b, 1, k) : k \in {1, Len(b) - 1} }

\* What a responder that breaks the contract may answer instead.
Deviations(m) ==
    ( Truncations(Reply(m))
      \cup { Encode(Stop),
             Encode(Mr(peerMeta.address, peerMeta.rkey, LE(24, 8))),
             Encode(PeerQp(0)),
             LE(4, 4), LE(1, 4) \o Zero32 \o LE(2, 4),
             Oversized } ) \ {Reply(m)}

\* The responder's bookkeeping on reading message m.
RespTrack(m) ==
    /\ rCur' = IF m.tag = "InitQp" THEN IndexOf(m.index) ELSE rCur
    /\ rConn' = IF m.tag = "ConnectQp" /\ rCur >= 0 THEN rConn \cup {rCur} ELSE rConn
    /\ rStopped' = (rStopped \/ m.tag = "Stop")

\* The responder reads the next message and answers it as the contract says.
RespHandle ==
    /\ peerOpen
    /\ rRead < Len(Sent)
    /\ rRead' = rRead + 1
    /\ r2i' = r2i \o Reply(Sent[rRead + 1])
    /\ RespTrack(Sent[rRead + 1])
    /\ UNCHANGED <<config, session, pc, qp_idx, qp, it, log, peerOpen, peerSent, honest>>

\* The responder reads the next message and answers with something else.
RespDeviate ==
    /\ peerOpen
    /\ rRead < Len(Sent)
    /\ Sent[rRead + 1].tag \in {"Mr", "InitQp"}
    /\ rRead' = rRead + 1
    /\ \E b \in Deviations(Sent[rRead + 1]) : r2i' = r2i \o b
    /\ RespTrack(Sent[rRead + 1])
    /\ honest' = FALSE
    /\ UNCHANGED <<config, session, pc, qp_idx, qp, it, log, peerOpen, peerSent>>

\* The responder closes the control connection instead of answering.
RespClose ==
    /\ peerOpen
    /\ rRead < Len(Sent)
    /\ Sent[rRead + 1].tag \in {"Mr", "InitQp"}
    /\ peerOpen' = FALSE
    /\ honest' = FALSE
    /\ UNCHANGED <<config, session, pc, qp_idx, qp, it, log, r2i, rRead, rCur, rConn,
                   rStopped, peerSent>>

\* After Stop the responder performs one send on a connected queue pair,
\* in no particular order.
RespSend(i) ==
    /\ rStopped
    /\ i \in rConn \ peerSent
    /\ peerSent' = peerSent \cup {i}
    /\ UNCHANGED <<config, session, pc, qp_idx, qp, it, log, r2i, rRead, peerOpen,
                   rCur, rConn, rStopped, honest>>

Next ==
    \/ Open
    \/ WriteMr
    \/ ReadMr
    \/ InitQpStep
    \/ WriteInitQp
    \/ ReadConnectQp
    \/ QpConnect
    \/ WriteConnectQp
    \/ WriteStop
    \/ PostRecv
    \/ WaitForEvent
    \/ Fail
    \/ RespHandle
    \/ RespDeviate
    \/ RespClose
    \/ \E i \in 0..MaxQps : RespSend(i)

Spec == Init /\ [][Next]_vars

TypeOK ==
    /\ pc \in {"start", "writeMr", "readMr", "initQp", "writeInit", "readConn",
               "qpConnect", "writeConn", "writeStop", "postRecv", "wait"} \cup Terminal
    /\ qp_idx \in 0..num_qps
    /\ Len(qp_list) <= num_qps
    /\ rRead <= Len(Sent)

(***************************************************************************)
(* Views of the operation log used by the properties.                      *)
(***************************************************************************)
IsPrefix(a, b) == Len(a) <= Len(b) /\ a = SubSeq(b, 1, Len(a))

IsCtl(e) == e.op \in {"write", "read"} /\ e.ok
\* The control messages written and read so far, in order.
Ctl ==
    LET c == SelectSeq(log, IsCtl)
    IN  [k \in 1..Len(c) |-> [dir |-> c[k].op, msg |-> c[k].msg]]

\* The local half of the identity of the queue pair for index i.
LocalQp(i) ==
    ConnectQp(GidEntry(i).subnet_id, GidEntry(i).interface_id, QpNum(i), Psn(i))

WriteOf(k, tag) == log[k].op = "write" /\ log[k].ok /\ log[k].msg.tag = tag
ReadOf(k, tag) == log[k].op = "read" /\ log[k].ok /\ log[k].msg.tag = tag
Did(k, op) == log[k].op = op /\ log[k].ok

\* The indices of the queue pairs of the session's list, in list order.
ListIdx == [j \in 1..Len(qp_list) |-> qp_list[j].idx]

AllResolvable == resolvable = 0..(num_qps - 1)

\* The exchange with a contract-honoring responder for indices i..num_qps-1
\* when every index is resolvable.
RECURSIVE FullExchange(_)
FullExchange(i) ==
    IF i >= num_qps THEN <<>>
    ELSE << [dir |-> "write", msg |-> InitQp(LE(i, 4), family)],
            [dir |-> "read", msg |-> PeerQp(i)],
            [dir |-> "write", msg |-> LocalQp(i)] >> \o FullExchange(i + 1)

FullHandshake ==
    << [dir |-> "write", msg |-> Mr(LocalMrAddr, LocalMrRkey, Zero64)],
       [dir |-> "read", msg |-> Mr(peerMeta.address, peerMeta.rkey, LE(24, 8))] >>
    \o FullExchange(0)
    \o << [dir |-> "write", msg |-> Stop] >>

\* C1: with every index resolvable, a contract-honoring responder and no
\* failing operation, the control messages connect() writes (and the reads
\* between them) are RegisterMemory, then per index in increasing order
\* InitQueuePair(i, family), one ConnectQueuePair read, ConnectQueuePair,
\* then Stop; when connect() returns, the queue-pair list holds exactly
\* num_qps queue pairs in index order.
C1_MessageOrder ==
    (honest /\ AllResolvable) =>
        /\ IsPrefix(Ctl, FullHandshake)
        /\ pc \in {"postRecv", "wait", "ready"} => Ctl = FullHandshake
        /\ pc = "ready" => ListIdx = [j \in 1..num_qps |-> j - 1]

C1_Witness ==
    /\ honest
    /\ pc = "ready"
    /\ num_qps = 2
    /\ AllResolvable
    /\ Len(qp_list) = 2

\* C2: a received message whose variant is not the one expected at the
\* current handshake position (RegisterMemory at the metadata exchange,
\* ConnectQueuePair after InitQueuePair) puts connect() in an error state,
\* and no control message is written and no receive posted after it.
C2_UnexpectedVariantFatal ==
    \A k \in DOMAIN log :
        (/\ log[k].op = "read"
         /\ log[k].ok
         /\ log[k].msg.tag # (IF log[k].at = -1 THEN "Mr" ELSE "ConnectQp"))
        => /\ pc \in Aborted
           /\ \A j \in DOMAIN log : j > k => log[j].op \notin {"write", "post"}

ExchangeDone(i, s) ==
    \E a, b, c, d \in 1..(s - 1) :
        /\ a < b /\ b < c /\ c < d
        /\ WriteOf(a, "InitQp") /\ log[a].at = i
        /\ ReadOf(b, "ConnectQp") /\ log[b].at = i
        /\ Did(c, "connect") /\ log[c].at = i
        /\ WriteOf(d, "ConnectQp") /\ log[d].at = i

\* C4: whatever the peer sends, Stop is written at most once, every
\* resolvable index has completed its full exchange when Stop is written,
\* and no InitQueuePair or ConnectQueuePair is written after Stop.
C4_StopAfterAllExchanges ==
    /\ Cardinality({k \in DOMAIN log : WriteOf(k, "Stop")}) <= 1
    /\ \A s \in DOMAIN log :
          WriteOf(s, "Stop") =>
             /\ \A i \in resolvable : ExchangeDone(i, s)
             /\ \A j \in DOMAIN log :
                   j > s => ~(WriteOf(j, "InitQp") \/ WriteOf(j, "ConnectQp"))

\* C5: for each index whose InitQueuePair was sent and that the loop has
\* left behind, exactly one ConnectQueuePair was read and then exactly one
\* ConnectQueuePair written for it, so the ConnectQueuePair messages written
\* are as many as the InitQueuePair messages of the indices left behind.
C5_OneExchangePerIndex ==
    /\ \A k \in DOMAIN log :
          (WriteOf(k, "InitQp") /\ log[k].at < qp_idx) =>
             /\ Cardinality({r \in DOMAIN log : ReadOf(r, "ConnectQp") /\ log[r].at = log[k].at}) = 1
             /\ Cardinality({w \in DOMAIN log : WriteOf(w, "ConnectQp") /\ log[w].at = log[k].at}) = 1
             /\ \E r, w \in DOMAIN log :
                   /\ k < r /\ r < w
                   /\ ReadOf(r, "ConnectQp") /\ log[r].at = log[k].at
                   /\ WriteOf(w, "ConnectQp") /\ log[w].at = log[k].at
    /\ Cardinality({w \in DOMAIN log : WriteOf(w, "ConnectQp")})
          = Cardinality({k \in DOMAIN log : WriteOf(k, "InitQp") /\ log[k].at < qp_idx})

\* What connect() itself changes.
initiator == <<pc, qp_idx, qp, qp_list, receiver_metadata_address,
               receiver_metadata_rkey, it, log>>

\* An operation that failed, or a read whose bytes did not decode.
IsFailure(e) == ~e.ok \/ e.msg = DecodeError

\* C6: a failed control-connection operation, decode or resource-provider
\* operation aborts connect() at that step: the failure is the last entry of
\* the operation log, connect() is in an error state, and from then on it
\* writes, reads and performs nothing (so nothing is retried).
C6_FailureAborts ==
    /\ [](\A k \in DOMAIN log :
             IsFailure(log[k]) => (k = Len(log) /\ pc \in Aborted))
    /\ [][(pc \in Aborted) => (initiator' = initiator)]_vars

C6_Witness ==
    /\ pc = "failed"
    /\ Len(qp_list) = 1
    /\ log[Len(log)].op = "connect"
    /\ ~log[Len(log)].ok

\* C7: bytes obtained by a read that are not exactly one encoded message
\* (a truncated message, zero bytes from a closed stream, more than the
\* buffer holds) yield a decode error, and nothing is written afterwards; a
\* truncated message is never accepted as a message.
C7_TruncatedRejected ==
    \A k \in DOMAIN log :
        (log[k].op = "read" /\ log[k].ok /\ ~log[k].exact) =>
            /\ log[k].msg = DecodeError
            /\ \A j \in DOMAIN log : j > k => log[j].op # "write"

\* The posts and waits of the barrier, in order.
IsBarrier(e) == e.op \in {"post", "wait"} /\ e.ok
Barrier == SelectSeq(log, IsBarrier)

\* C8: the barrier is sequential in list order: the k-th barrier operation
\* is the post on queue pair (k+1)/2 for odd k and the wait on queue pair
\* k/2 for even k, so one receive is posted on q_j before its wait and the
\* post on q_(j+1) follows the completion of q_j; a wait returns only on the
\* completion of its own queue pair.
C8_BarrierSequential ==
    /\ \A k \in DOMAIN Barrier :
          /\ Barrier[k].op = (IF k % 2 = 1 THEN "post" ELSE "wait")
          /\ Barrier[k].at = (k + 1) \div 2
          /\ Barrier[k].at \in DOMAIN qp_list
          /\ Barrier[k].op = "wait" => qp_list[Barrier[k].at].idx \in peerSent
    /\ \A k \in DOMAIN log : log[k].op \in {"post", "wait"} => log[k].at \in DOMAIN qp_list

\* The completion of the second queue pair is available while connect()
\* still waits for the first, and no receive is posted on the second.
C8_Witness ==
    /\ pc = "wait"
    /\ it = 1
    /\ Len(qp_list) = 2
    /\ qp_list[2].idx \in peerSent
    /\ qp_list[1].idx \notin peerSent
    /\ Len(Barrier) = 1

\* C9: connect() returns success only after Stop was written and every
\* queue pair of the list had one receive posted and its completion observed.
C9_ReadyAfterBarrier ==
    pc = "ready" =>
        /\ \E k \in DOMAIN log : WriteOf(k, "Stop")
        /\ \A j \in DOMAIN qp_list :
              /\ Cardinality({k \in DOMAIN log : Did(k, "post") /\ log[k].at = j}) = 1
              /\ Cardinality({k \in DOMAIN log : Did(k, "wait") /\ log[k].at = j}) = 1
              /\ qp_list[j].idx \in peerSent

C9_Witness ==
    /\ pc = "ready"
    /\ Len(qp_list) = 2
    /\ Len(Barrier) = 4

\* The metadata exchange is over: its read has returned a message.
MetadataExchanged == \E k \in DOMAIN log : log[k].op = "read" /\ log[k].ok /\ log[k].at = -1

\* C10: once the metadata exchange is over, the stored remote metadata is
\* the address and rkey of the RegisterMemory message received in it, and
\* no later step of connect() changes it.
C10_RemoteMetadataStable ==
    /\ [](\A k \in DOMAIN log :
             (ReadOf(k, "Mr") /\ log[k].at = -1) =>
                 /\ receiver_metadata_address = log[k].msg.address
                 /\ receiver_metadata_rkey = log[k].msg.rkey)
    /\ [][MetadataExchanged =>
            (/\ receiver_metadata_address' = receiver_metadata_address
             /\ receiver_metadata_rkey' = receiver_metadata_rkey)]_vars

C10_Witness ==
    /\ pc = "ready"
    /\ Len(qp_list) = 2
    /\ receiver_metadata_address = Max64
    /\ receiver_metadata_rkey = Max32

\* C11: exactly one RegisterMemory is sent and exactly one received, both
\* before any queue pair is created and before any InitQueuePair is sent:
\* negotiation never starts without a RegisterMemory received from the peer.
C11_MetadataBeforeNegotiation ==
    /\ Cardinality({k \in DOMAIN log : WriteOf(k, "Mr")}) <= 1
    /\ Cardinality({k \in DOMAIN log : ReadOf(k, "Mr")}) <= 1
    /\ \A k \in DOMAIN log :
          (log[k].op = "init" \/ WriteOf(k, "InitQp")) =>
             /\ \E w \in 1..(k - 1) : WriteOf(w, "Mr")
             /\ \E r \in 1..(k - 1) : ReadOf(r, "Mr")

\* connect() is suspended in a read on an open connection with nothing to
\* read, or in the wait for a completion that has not arrived.
BlockedOnRead == pc \in {"readMr", "readConn"} /\ r2i = <<>> /\ peerOpen
BlockedOnWait == pc = "wait" /\ qp_list[it].idx \notin peerSent

\* C12: there is no timeout or cancellation: while the awaited message or
\* completion does not arrive (and the blocked operation does not itself
\* fail), connect() stays at its suspension point, neither Ready nor in error.
C12_BlocksWithoutTimeout ==
    [][ ( /\ \/ (BlockedOnRead /\ r2i' = <<>> /\ peerOpen')
             \/ (BlockedOnWait /\ qp_list[it].idx \notin peerSent')
          /\ ~(Len(log') > Len(log) /\ ~log'[Len(log')].ok) )
        => (initiator' = initiator) ]_vars

\* The responder has read everything, answered nothing is pending, and
\* connect() waits in a read.
C12_Witness ==
    /\ BlockedOnRead
    /\ pc = "readConn"
    /\ Len(qp_list) = 1

(***************************************************************************)
(* The handshake with a contract-honoring responder and no failure, under  *)
(* fairness: the calling thread keeps running connect(), and the responder *)
(* keeps reading, answering and, after Stop, sending.                      *)
(***************************************************************************)
InitiatorNext ==
    \/ Open
    \/ WriteMr
    \/ ReadMr
    \/ InitQpStep
    \/ WriteInitQp
    \/ ReadConnectQp
    \/ QpConnect
    \/ WriteConnectQp
    \/ WriteStop
    \/ PostRecv
    \/ WaitForEvent

ResponderNext ==
    \/ RespHandle
    \/ \E i \in 0..MaxQps : RespSend(i)

HonestNext == InitiatorNext \/ ResponderNext

FairSpec ==
    /\ Init
    /\ [][HonestNext]_vars
    /\ WF_vars(InitiatorNext)
    /\ WF_vars(ResponderNext)

\* C13: with a contract-honoring responder, no failing operation and
\* fairness, connect() eventually reaches Ready for every num_qps and every
\* resolvability pattern, and before that some step of the initiator or the
\* responder is always possible (they never wait for each other).
C13_EventuallyReady ==
    /\ <>(pc = "ready")
    /\ [](pc # "ready" => ENABLED HonestNext)

C13_Witness ==
    /\ pc = "ready"
    /\ honest
    /\ Len(qp_list) = 2
    /\ peerSent = {0, 1}
    /\ rRead = Len(Sent)

\* C14: an abort rolls nothing back: the step that aborts connect(), and
\* every step after it, leaves the queue pairs already in the list in place
\* and in order and the stored remote metadata as it was (the registered
\* region and the protection domain are only read by connect()).
C14_NoRollback ==
    [][ (pc' \in Aborted) =>
           /\ qp_list' = qp_list
           /\ receiver_metadata_address' = receiver_metadata_address
           /\ receiver_metadata_rkey' = receiver_metadata_rkey ]_vars

C14_Witness ==
    /\ pc \in Aborted
    /\ ListIdx = <<0, 1>>
    /\ receiver_metadata_address = Max64
    /\ ~log[Len(log)].ok
    /\ log[Len(log)].op = "wait"

(***************************************************************************)
(* The codec on its own: a message is serialized and written, and the      *)
(* bytes are read into the zero-filled buffer and deserialized, as         *)
(* connect() does on either side of its stream.                            *)
(***************************************************************************)
\* Field values: zero, one and the maximum of the width.
V32 == {Zero32, LE(1, 4), Max32}
V64 == {Zero64, LE(1, 8), Max64}

\* The ControlMessage values over these field values.
CodecMsgs ==
    {Mr(a, r, l) : a \in V64, r \in V32, l \in V64}
    \cup {InitQp(i, f) : i \in V32, f \in Families}
    \cup {ConnectQp(sn, ifc, q, p) : sn \in V64, ifc \in V64, q \in V32, p \in V32}
    \cup {Stop}

CodecInit ==
    /\ num_qps = 0
    /\ family = "V4"
    /\ resolvable = {}
    /\ peerMeta \in {[address |-> Max64, rkey |-> Max32]}
    /\ pc = "encode"
    /\ qp_idx = 0
    /\ qp = NoQp
    /\ qp_list = <<>>
    /\ receiver_metadata_address = Zero64
    /\ receiver_metadata_rkey = Zero32
    /\ it = 1
    /\ \E m \in CodecMsgs : log = <<Ev("write", -1, m, TRUE)>>
    /\ r2i = <<>>
    /\ rRead = 0
    /\ peerOpen = TRUE
    /\ rCur = -1
    /\ rConn = {}
    /\ rStopped = FALSE
    /\ peerSent = {}
    /\ honest = TRUE

\* let serialized = bincode::serialize(&socket_comm); stream.write(&serialized)
CodecWrite ==
    /\ pc = "encode"
    /\ r2i' = Encode(log[1].msg)
    /\ pc' = "decode"
    /\ UNCHANGED <<config, session, qp_idx, qp, it, log, rRead, peerOpen, rCur, rConn,
                   rStopped, peerSent, honest>>

\* let mut buffer = vec![0; 1024]; stream.read(&mut buffer); deserialize(&buffer)
CodecRead ==
    /\ pc = "decode"
    /\ LET n == Min(Len(r2i), BufCap)
           m == Decode(ReadBuf(r2i, n))
       IN  /\ r2i' = SubSeq(r2i, n + 1, Len(r2i))
           /\ log' = Append(log, ReadEv(-1, m, n,
                        m # DecodeError /\ SubSeq(r2i, 1, n) = Encode(m)))
    /\ pc' = "decoded"
    /\ UNCHANGED <<config, session, qp_idx, qp, it, rRead, peerOpen, rCur, rConn,
                   rStopped, peerSent, honest>>

CodecNext == CodecWrite \/ CodecRead

CodecSpec == CodecInit /\ [][CodecNext]_vars

\* C15: decoding the encoding of a ControlMessage, the encoded bytes placed
\* at the start of the zero-filled receive buffer, yields the message itself,
\* for every variant with fields zero, one or the maximum of their width.
C15_RoundTrip ==
    pc = "decoded" =>
        /\ log[2].op = "read"
        /\ log[2].msg = log[1].msg
        /\ log[2].n = Len(Encode(log[1].msg))
        /\ r2i = <<>>

C15_Witness ==
    /\ pc = "decoded"
    /\ log[1].msg = ConnectQp(Max64, Zero64, Max32, Max32)
    /\ log[2].msg.tag = "ConnectQp"

\* C16: within the exchange for index i the local queue pair is created and
\* initialized before InitQueuePair(i) is written; the local connect follows
\* the read of the responder's ConnectQueuePair, uses the identity read, and
\* precedes the initiator's ConnectQueuePair, which carries the subnet id and
\* interface id of the GID entry of i and the queue-pair number and packet
\* sequence number of that connected local queue pair.
C16_ExchangeOrder ==
    \A k \in DOMAIN log :
        /\ WriteOf(k, "InitQp") =>
              /\ k > 1
              /\ Did(k - 1, "init")
              /\ log[k - 1].at = log[k].at
        /\ log[k].op = "connect" =>
              /\ k > 1
              /\ ReadOf(k - 1, "ConnectQp")
              /\ log[k - 1].at = log[k].at
              /\ log[k].ok => log[k].msg = log[k - 1].msg
              /\ \E a \in 1..(k - 1) : WriteOf(a, "InitQp") /\ log[a].at = log[k].at
        /\ WriteOf(k, "ConnectQp") =>
              /\ k > 1
              /\ Did(k - 1, "connect")
              /\ log[k - 1].at = log[k].at
              /\ log[k].msg.subnet_id = GidEntry(log[k].at).subnet_id
              /\ log[k].msg.interface_id = GidEntry(log[k].at).interface_id
              /\ log[k].msg.qpn = QpNum(log[k].at)
              /\ log[k].msg.psn = Psn(log[k].at)
              /\ \E j \in DOMAIN qp_list :
                    qp_list[j].idx = log[k].at /\ qp_list[j].state = "connected"

C16_Witness ==
    /\ pc = "writeStop"
    /\ num_qps = 2
    /\ resolvable = {1}
    /\ \E k \in DOMAIN log : WriteOf(k, "ConnectQp") /\ log[k].at = 1

\* C17: in every reachable state, including those reached by an abort on a
\* failed write, every queue pair in the session's ordered list is one whose
\* local connect succeeded and whose initiator ConnectQueuePair has already
\* been written to the control connection.
C17_ListedAfterConnectSent ==
    \A j \in DOMAIN qp_list :
        /\ qp_list[j].state = "connected"
        /\ \E k \in DOMAIN log : Did(k, "connect") /\ log[k].at = qp_list[j].idx
        /\ \E k \in DOMAIN log : WriteOf(k, "ConnectQp") /\ log[k].at = qp_list[j].idx

\* C18: no receive work request is posted before Stop has been written: in
\* every state in which a receive has been posted (or its posting attempted),
\* the loop over the indices is over with no queue pair in negotiation, Stop
\* has been written, and no control message is written or read, nor any
\* queue pair created, initialized or connected, after the first post.
C18_BarrierAfterStop ==
    \A k \in DOMAIN log :
        log[k].op = "post" =>
            /\ qp_idx = num_qps
            /\ qp = NoQp
            /\ \E a \in 1..(k - 1) : WriteOf(a, "Stop")
            /\ \A b \in k..Len(log) : log[b].op \in {"post", "wait"}

C18_Witness ==
    /\ pc = "wait"
    /\ it = 2
    /\ log[Len(log)].op = "post"
    /\ \E a \in DOMAIN log : WriteOf(a, "Stop")

(***************************************************************************)
(* connect() against a responder that honors the message contract: local  *)
(* operations may fail, the responder neither deviates nor closes.         *)
(***************************************************************************)
ContractNext == HonestNext \/ Fail

ContractSpec == Init /\ [][ContractNext]_vars

\* The answers the responder has produced so far.
IsAnswered(m) == m.tag \in {"Mr", "InitQp"}
Answers == Len(SelectSeq(SubSeq(Sent, 1, rRead), IsAnswered))
\* A read that returned bytes (a failed read consumes nothing).
IsRead(e) == e.op = "read" /\ e.ok
Reads == Len(SelectSeq(log, IsRead))

\* C19: with a responder that honors the message contract, at most one
\* responder-to-initiator control message is unread by the initiator (the
\* bytes in flight are nothing or exactly one message, and every read
\* consumed exactly the bytes of the message it decoded), and at most two
\* initiator-to-responder control messages are unread by the responder.
C19_BoundedInFlight ==
    /\ Answers - Reads \in {0, 1}
    /\ \/ Answers = Reads /\ r2i = <<>>
       \/ /\ Answers = Reads + 1
          /\ \E j \in 1..rRead : IsAnswered(Sent[j]) /\ r2i = Reply(Sent[j])
    /\ \A k \in DOMAIN log : IsRead(log[k]) => log[k].exact
    /\ Len(Sent) - rRead \in 0..2

C19_Witness ==
    /\ Len(Sent) - rRead = 2
    /\ pc = "readConn"
    /\ Reads = 2
    /\ qp_idx = 1

(***************************************************************************)
(* Several calls of connect() on one Sender.  Nothing in connect() resets  *)
(* the session: qp_list and the remote metadata are kept from call to      *)
(* call.  Each call opens a new control connection, which the responder    *)
(* serves from its initial state.                                          *)
(***************************************************************************)
MaxCalls == 2

Calls == Cardinality({k \in DOMAIN log : log[k].op = "open"})

\* connect() is called again after it returned Ok(()).
ConnectAgain ==
    /\ pc = "ready"
    /\ Calls < MaxCalls
    /\ pc' = "start"
    /\ r2i' = <<>>
    /\ rRead' = Len(Sent)
    /\ rCur' = -1
    /\ rConn' = {}
    /\ rStopped' = FALSE
    /\ peerSent' = {}
    /\ UNCHANGED <<config, session, qp_idx, qp, it, log, peerOpen, honest>>

ReconnectNext == HonestNext \/ ConnectAgain

ReconnectSpec == Init /\ [][ReconnectNext]_vars

\* The number of queue pairs on the list when the call that performed the
\* k-th operation of the log began.
BaseAt(k) ==
    Cardinality({c \in 1..k :
        /\ log[c].op = "connect" /\ log[c].ok
        /\ \E o \in (c + 1)..k : log[o].op = "open"})

\* C20: for any sequence of connect() calls on the same session, each call
\* performs its readiness barrier on exactly the queue pairs connected during
\* that call, and after a successful call the length of the session's list
\* equals the number of indices whose exchange completed in that call, never
\* more than num_qps.
C20_BarrierOnOwnQps ==
    /\ \A k \in DOMAIN log :
          log[k].op \in {"post", "wait"} => log[k].at > BaseAt(k)
    /\ pc = "ready" =>
          /\ Len(qp_list) = Cardinality({k \in DOMAIN log :
                                /\ WriteOf(k, "ConnectQp")
                                /\ BaseAt(k) = CallBase})
          /\ Len(qp_list) <= num_qps
          /\ \A j \in (CallBase + 1)..Len(qp_list) :
                \E k \in DOMAIN log :
                    Did(k, "wait") /\ log[k].at = j /\ BaseAt(k) = CallBase

====
